---- MODULE Spec2Model ----
(***************************************************************************)
(* Model of math-symbols (src/src/lib.rs): a process-wide register of      *)
(* symbol names behind one reader/writer lock, and the Symbol handle that  *)
(* indexes into it.  A run has one or two processes (each with its own     *)
(* register, as each has its own lazy_static), threads that call           *)
(* Symbol::new, Symbol::name, and the serde adapters serialize_sym and     *)
(* deserialize_sym.  Lock requests, lock grants and the two halves of the  *)
(* append in SymbolRegister::idx are separate steps.                       *)
(***************************************************************************)
EXTENDS Integers, Sequences, FiniteSets, TLC

\* ------------------------------------------------------------------ bounds
NumThreads == 2
MaxCalls == 4

Threads == 1..NumThreads
Procs == {"A", "B"}
Names == {"x", "y", "z"}
\* identifiers a caller inside the crate can put into a Symbol by hand
RawIdx == {Cardinality(Names)}

VARIABLES
    reg,      \* reg[p]: the SymbolRegister of process p: names, indices
    lock,     \* lock[p]: the RwLock around it: readers, writer, poisoned
    procOf,   \* procOf[t]: the process thread t runs in
    pc,       \* pc[t]: where thread t stands in its current call
    op,       \* op[t]: the call thread t is in
    sarg,     \* sarg[t]: the text argument of Symbol::new
    harg,     \* harg[t]: the handle Symbol::name is called on
    ret,      \* ret[t]: new_idx of SymbolRegister::idx (-1: none)
    gtext,    \* gtext[t]: the text the handle under construction stands for
    issued,   \* issued[p]: the handles Symbol::new has returned in p
    last,     \* the call that returned (or unwound) most recently
    wire,     \* the value serialize_sym produced most recently
    firstSeq, \* firstSeq[p]: names in the order they were first interned
    spawned,  \* the threads that have made a call
    calls     \* number of calls started

vars == <<reg, lock, procOf, pc, op, sarg, harg, ret, gtext, issued, last,
          wire, firstSeq, spawned, calls>>

\* ------------------------------------------------------------ plain values
NoThread == 0
NoIdx == -1
NoHandle == [idx |-> 0, text |-> "", src |-> "none"]
NoProc == ""
NoOut == [kind |-> "none", val |-> ""]
NoLast ==
    [proc |-> NoProc, op |-> "none", h |-> NoHandle, out |-> NoOut,
     path |-> "none"]
NoWire == [value |-> NoOut, text |-> ""]
Range(s) == {s[i] : i \in 1..Len(s)}

\* Symbol::default(): the derived Default gives idx = 0
DefaultSymbol == [idx |-> 0, text |-> "", src |-> "default"]

\* SymbolRegister::default(): no names, no indices
EmptyRegister == [names |-> <<>>, indices |-> [n \in {} |-> 0]]

\* RwLock::new
NewRwLock == [readers |-> {}, writer |-> NoThread, poisoned |-> FALSE]

\* AHashMap::insert: the key's old value, if any, is replaced
MapInsert(m, k, v) ==
    [n \in DOMAIN m \cup {k} |-> IF n = k THEN v ELSE m[n]]

\* -------------------------------------------------------- SymbolRegister
\* bug: the lookup never finds a name
Register_try_idx_Miss(r, n) == [some |-> FALSE, idx |-> 0]

\* fn try_idx(&self, name) -> Option<usize>
Register_try_idx(r, n) ==
    IF n \in DOMAIN r.indices
    THEN [some |-> TRUE, idx |-> r.indices[n]]
    ELSE [some |-> FALSE, idx |-> 0]

\* bug: the names are indexed from the end
Register_name_FromEnd(r, i) ==
    IF i < Len(r.names)
    THEN [kind |-> "ok", val |-> r.names[Len(r.names) - i]]
    ELSE [kind |-> "panic", val |-> ""]

\* bug: names.get(idx) with a default instead of the panicking index
Register_name_Lenient(r, i) ==
    IF i < Len(r.names)
    THEN [kind |-> "ok", val |-> r.names[i + 1]]
    ELSE [kind |-> "ok", val |-> ""]

\* fn name(&self, idx) -> &str: &self.names[idx], which panics out of bounds
Register_name(r, i) ==
    IF i < Len(r.names)
    THEN [kind |-> "ok", val |-> r.names[i + 1]]
    ELSE [kind |-> "panic", val |-> ""]

\* bug: no second check under the write guard
Register_idx_hit_None(r, n) == [some |-> FALSE, idx |-> 0]

\* fn idx: the check that the name is still absent
Register_idx_hit(r, n) == Register_try_idx(r, n)

\* bug: the length is taken after the push
Register_idx_new_AfterPush(r) == Len(r.names) + 1

\* fn idx: let new_idx = self.names.len()
Register_idx_new(r) == Len(r.names)

\* fn idx: self.indices.insert(String::from(name), new_idx)
Register_idx_insert(r, n, i) == [r EXCEPT !.indices = MapInsert(@, n, i)]

\* bug: names.insert(0, name) instead of push
Register_idx_push_Front(r, n) == [r EXCEPT !.names = <<n>> \o @]

\* fn idx: self.names.push(String::from(name))
Register_idx_push(r, n) == [r EXCEPT !.names = Append(@, n)]

\* ------------------------------------------------------------------ RwLock
\* bug: readers are let in beside a writer
CanRead_Always(l) == TRUE

\* read() is granted while no writer holds the lock
CanRead(l) == l.writer = NoThread

\* bug: a second writer is let in beside the first
CanWrite_NoWriterCheck(l) == l.readers = {}

\* write() is granted while nobody holds the lock
CanWrite(l) == l.writer = NoThread /\ l.readers = {}

GrantRead(l, t) == [l EXCEPT !.readers = @ \cup {t}]
GrantWrite(l, t) == [l EXCEPT !.writer = t]

\* dropping a read guard; a read guard dropped while panicking poisons nothing
DropRead(l, t) == [l EXCEPT !.readers = @ \ {t}]
DropWrite(l, t) == [l EXCEPT !.writer = NoThread]

\* bug: the guard poisons the lock when dropped in a panic, as a write
\* guard does
DropReadUnwinding_Poison(l, t) ==
    [l EXCEPT !.readers = @ \ {t}, !.poisoned = TRUE]

\* the read guard of Symbol::name dropped while the thread unwinds from the
\* index panic: RwLock poisons only through write guards
DropReadUnwinding(l, t) == DropRead(l, t)

\* bug: the read guard is bound to a variable and lives to the end of new
NewMissDrop_Keep(l, t) == l

\* Symbol::new: the guard of the `if let` scrutinee is a temporary, dropped
\* when the statement ends, before the write lock is requested
NewMissDrop(l, t) == DropRead(l, t)

\* LockResult::unwrap: panics on a poisoned lock
Unwrap(l) == ~l.poisoned

\* ---------------------------------------------------------------- Init
\* the state after construction, but for the threads' processes
Start ==
    /\ reg = [p \in Procs |-> EmptyRegister]
    /\ lock = [p \in Procs |-> NewRwLock]
    /\ pc = [t \in Threads |-> "idle"]
    /\ op = [t \in Threads |-> "none"]
    /\ sarg = [t \in Threads |-> ""]
    /\ harg = [t \in Threads |-> NoHandle]
    /\ ret = [t \in Threads |-> NoIdx]
    /\ gtext = [t \in Threads |-> ""]
    /\ issued = [p \in Procs |-> {}]
    /\ last = NoLast
    /\ wire = NoWire
    /\ firstSeq = [p \in Procs |-> <<>>]
    /\ spawned = {}
    /\ calls = 0

\* one process: every thread shares the one SYMBOL_REGISTER
Init == procOf = [t \in Threads |-> "A"] /\ Start

\* two processes: thread 1 runs in A, the others in B, each process with a
\* SYMBOL_REGISTER of its own
InitSer == procOf = [t \in Threads |-> IF t = 1 THEN "A" ELSE "B"] /\ Start

\* Threads of one process are interchangeable: they are numbered in the
\* order of their first calls.
\* a thread may start a call when it is not inside one and has not unwound
Ready(t) ==
    /\ pc[t] = "idle"
    /\ calls < MaxCalls
    /\ \A u \in Threads : u < t /\ procOf[u] = procOf[t] => u \in spawned

StartCall(t, o, s, g, h) ==
    /\ op' = [op EXCEPT ![t] = o]
    /\ sarg' = [sarg EXCEPT ![t] = s]
    /\ gtext' = [gtext EXCEPT ![t] = g]
    /\ harg' = [harg EXCEPT ![t] = h]
    /\ spawned' = spawned \cup {t}
    /\ calls' = calls + 1

\* the call of thread t is over: by returning (to "idle") or by unwinding
EndCall(t, to) ==
    /\ pc' = [pc EXCEPT ![t] = to]
    /\ op' = [op EXCEPT ![t] = "none"]
    /\ sarg' = [sarg EXCEPT ![t] = ""]
    /\ gtext' = [gtext EXCEPT ![t] = ""]
    /\ harg' = [harg EXCEPT ![t] = NoHandle]
    /\ ret' = [ret EXCEPT ![t] = NoIdx]

\* ------------------------------------------------------------ Symbol::new
\* pub fn new(name): the call starts and asks for the read lock
NewCall(t, s) ==
    /\ Ready(t)
    /\ StartCall(t, "new", s, s, NoHandle)
    /\ pc' = [pc EXCEPT ![t] = "new_rdlock"]
    /\ UNCHANGED <<reg, lock, procOf, ret, issued, last, wire, firstSeq>>

\* the read lock is granted: SYMBOL_REGISTER.read().unwrap()
NewReadLock(t) ==
    /\ pc[t] = "new_rdlock"
    /\ CanRead(lock[procOf[t]])
    /\ IF Unwrap(lock[procOf[t]])
       THEN /\ lock' = [lock EXCEPT ![procOf[t]] = GrantRead(@, t)]
            /\ pc' = [pc EXCEPT ![t] = "new_try"]
       ELSE /\ pc' = [pc EXCEPT ![t] = "panicked"]
            /\ UNCHANGED lock
    /\ UNCHANGED <<reg, procOf, op, sarg, harg, ret, gtext, issued, last,
                   wire, firstSeq, spawned, calls>>

\* the handle a finished Symbol::new hands to its caller; deserialize_sym
\* wraps the same call
Issue(t, i) == [idx |-> i, text |-> gtext[t], src |-> "new"]

\* Symbol::new returns Self { idx } (deserialize_sym: Ok(s.idx))
NewReturn(t, i, path) ==
    /\ issued' = [issued EXCEPT ![procOf[t]] = @ \cup {Issue(t, i)}]
    /\ last' = [proc |-> procOf[t], op |-> op[t], h |-> Issue(t, i),
                out |-> NoOut, path |-> path]
    /\ EndCall(t, "idle")

\* .try_idx(name) under the read guard: a hit returns Self { idx }, a miss
\* falls through; either way the guard is dropped
NewLookup(t) ==
    /\ pc[t] = "new_try"
    /\ LET p == procOf[t]
           r == Register_try_idx(reg[p], sarg[t])
       IN  IF r.some
           THEN /\ lock' = [lock EXCEPT ![p] = DropRead(@, t)]
                /\ NewReturn(t, r.idx, "read_hit")
           ELSE /\ lock' = [lock EXCEPT ![p] = NewMissDrop(@, t)]
                /\ pc' = [pc EXCEPT ![t] = "new_wrlock"]
                /\ UNCHANGED <<op, sarg, harg, ret, gtext, issued, last>>
    /\ UNCHANGED <<reg, procOf, wire, firstSeq, spawned, calls>>

\* the write lock is granted: SYMBOL_REGISTER.write().unwrap()
NewWriteLock(t) ==
    /\ pc[t] = "new_wrlock"
    /\ CanWrite(lock[procOf[t]])
    /\ IF Unwrap(lock[procOf[t]])
       THEN /\ lock' = [lock EXCEPT ![procOf[t]] = GrantWrite(@, t)]
            /\ pc' = [pc EXCEPT ![t] = "new_idx"]
       ELSE /\ pc' = [pc EXCEPT ![t] = "panicked"]
            /\ UNCHANGED lock
    /\ UNCHANGED <<reg, procOf, op, sarg, harg, ret, gtext, issued, last,
                   wire, firstSeq, spawned, calls>>

\* SymbolRegister::idx under the write guard, up to indices.insert: a name
\* that is there by now is returned, else it gets names.len()
NewIdx(t) ==
    /\ pc[t] = "new_idx"
    /\ LET p == procOf[t]
           r == Register_idx_hit(reg[p], sarg[t])
           new_idx == Register_idx_new(reg[p])
       IN  IF r.some
           THEN /\ lock' = [lock EXCEPT ![p] = DropWrite(@, t)]
                /\ NewReturn(t, r.idx, "write_hit")
                /\ UNCHANGED reg
           ELSE /\ ret' = [ret EXCEPT ![t] = new_idx]
                /\ reg' = [reg EXCEPT ![p] =
                              Register_idx_insert(@, sarg[t], new_idx)]
                /\ pc' = [pc EXCEPT ![t] = "new_push"]
                /\ UNCHANGED <<lock, op, sarg, harg, gtext, issued, last>>
    /\ UNCHANGED <<procOf, wire, firstSeq, spawned, calls>>

\* SymbolRegister::idx, names.push and the return of new_idx; the write
\* guard is dropped and Symbol::new returns Self { idx }
NewPush(t) ==
    /\ pc[t] = "new_push"
    /\ LET p == procOf[t]
       IN  /\ reg' = [reg EXCEPT ![p] = Register_idx_push(@, sarg[t])]
           /\ lock' = [lock EXCEPT ![p] = DropWrite(@, t)]
           /\ firstSeq' = [firstSeq EXCEPT ![p] =
                  IF sarg[t] \in Range(@) THEN @ ELSE Append(@, sarg[t])]
    /\ NewReturn(t, ret[t], "appended")
    /\ UNCHANGED <<procOf, wire, spawned, calls>>

\* ----------------------------------------------------------- Symbol::name
\* the handles a caller in t's process can hold: issued ones, the default
\* one, and (inside the crate) one made from a bare identifier
Handles(t) ==
    issued[procOf[t]] \cup {DefaultSymbol}
        \cup {[idx |-> i, text |-> "", src |-> "raw"] : i \in RawIdx}

\* pub fn name(&self): the call starts and asks for the read lock
NameCall(t, h) ==
    /\ Ready(t)
    /\ h \in Handles(t)
    /\ StartCall(t, "name", "", "", h)
    /\ pc' = [pc EXCEPT ![t] = "name_rdlock"]
    /\ UNCHANGED <<reg, lock, procOf, ret, issued, last, wire, firstSeq>>

\* fn serialize_sym(sym: &usize, s): Symbol { idx: *sym }.name() comes
\* first; serde hands it the field of a Symbol the caller holds
SerCall(t, h) ==
    /\ Ready(t)
    /\ h \in issued[procOf[t]]
    /\ StartCall(t, "ser", "", "", h)
    /\ pc' = [pc EXCEPT ![t] = "name_rdlock"]
    /\ UNCHANGED <<reg, lock, procOf, ret, issued, last, wire, firstSeq>>

\* impl Display for Symbol, fn fmt: the same lookup, written to f
FmtCall(t, h) ==
    /\ Ready(t)
    /\ h \in Handles(t)
    /\ StartCall(t, "fmt", "", "", h)
    /\ pc' = [pc EXCEPT ![t] = "name_rdlock"]
    /\ UNCHANGED <<reg, lock, procOf, ret, issued, last, wire, firstSeq>>

\* the read lock is granted: SYMBOL_REGISTER.read().unwrap()
NameReadLock(t) ==
    /\ pc[t] = "name_rdlock"
    /\ CanRead(lock[procOf[t]])
    /\ IF Unwrap(lock[procOf[t]])
       THEN /\ lock' = [lock EXCEPT ![procOf[t]] = GrantRead(@, t)]
            /\ pc' = [pc EXCEPT ![t] = "name_idx"]
       ELSE /\ pc' = [pc EXCEPT ![t] = "panicked"]
            /\ UNCHANGED lock
    /\ UNCHANGED <<reg, procOf, op, sarg, harg, ret, gtext, issued, last,
                   wire, firstSeq, spawned, calls>>

\* bug: the derived Serialize of the idx field, without serialize_with
SerializeString_Idx(s) == [kind |-> "int", val |-> ""]

\* String::serialize(&name, s): the wire value is the plain string
SerializeString(s) == [kind |-> "str", val |-> s]

\* write!(f, "{}", name): the text written is the name
WriteDisplay(s) == [kind |-> "fmt", val |-> s]

\* .name(self.idx).to_owned() under the read guard; serialize_sym then
\* serializes the String, Display::fmt writes it.  An index out of bounds
\* unwinds the thread, and the guard is dropped on the way
NameIndex(t) ==
    /\ pc[t] = "name_idx"
    /\ LET p == procOf[t]
           r == Register_name(reg[p], harg[t].idx)
           o == IF r.kind = "ok" /\ op[t] = "ser" THEN SerializeString(r.val)
                ELSE IF r.kind = "ok" /\ op[t] = "fmt" THEN WriteDisplay(r.val)
                ELSE r
       IN  /\ lock' = [lock EXCEPT ![p] =
                  IF r.kind = "ok" THEN DropRead(@, t)
                  ELSE DropReadUnwinding(@, t)]
           /\ last' = [proc |-> p, op |-> op[t], h |-> harg[t], out |-> o,
                       path |-> "none"]
           /\ wire' = IF r.kind = "ok" /\ op[t] = "ser"
                      THEN [value |-> o, text |-> harg[t].text] ELSE wire
           /\ EndCall(t, IF r.kind = "ok" THEN "idle" ELSE "panicked")
    /\ UNCHANGED <<reg, procOf, issued, firstSeq, spawned, calls>>

\* -------------------------------------------------------- deserialize_sym
\* String::deserialize(d)?: a plain string value gives its text
DeserializeString(w) == w.val

\* fn deserialize_sym(d): the payload is what serialize_sym produced last, in
\* this process or the other; Symbol::new(&name) follows
DeserCall(t) ==
    /\ Ready(t)
    /\ wire.value.kind = "str"
    /\ StartCall(t, "deser", DeserializeString(wire.value), wire.text, NoHandle)
    /\ pc' = [pc EXCEPT ![t] = "new_rdlock"]
    /\ UNCHANGED <<reg, lock, procOf, ret, issued, last, wire, firstSeq>>

\* the payloads a deserializer can be handed from outside: a plain string
\* of any text, or a value that is no string
Incoming ==
    {[kind |-> "str", val |-> n] : n \in Names} \cup {[kind |-> "int", val |-> ""]}

\* fn deserialize_sym(d) on a payload from outside: String::deserialize(d)?
\* returns the format error of a value that is no string, before the
\* register is touched; else Symbol::new(&name) follows
DeserInCall(t, w) ==
    /\ Ready(t)
    /\ w \in Incoming
    /\ IF w.kind = "str"
       THEN /\ StartCall(t, "deser_in", DeserializeString(w), w.val, NoHandle)
            /\ pc' = [pc EXCEPT ![t] = "new_rdlock"]
            /\ UNCHANGED last
       ELSE /\ spawned' = spawned \cup {t}
            /\ calls' = calls + 1
            /\ last' = [proc |-> procOf[t], op |-> "deser_in", h |-> NoHandle,
                        out |-> [kind |-> "err", val |-> ""],
                        path |-> "format_error"]
            /\ UNCHANGED <<pc, op, sarg, gtext, harg>>
    /\ UNCHANGED <<reg, lock, procOf, ret, issued, wire, firstSeq>>

\* Symbol::new and Symbol::name, the calls of every workload
Core(t) ==
    \/ \E s \in Names : NewCall(t, s)
    \/ NewReadLock(t)
    \/ NewLookup(t)
    \/ NewWriteLock(t)
    \/ NewIdx(t)
    \/ NewPush(t)
    \/ \E h \in Handles(t) : NameCall(t, h)
    \/ NameReadLock(t)
    \/ NameIndex(t)

\* callers that intern, look up, serialize and deserialize what they
\* serialized
Next ==
    \E t \in Threads :
        \/ Core(t)
        \/ \E h \in issued[procOf[t]] : SerCall(t, h)
        \/ DeserCall(t)

\* callers that intern, look up and print symbols
NextFmt ==
    \E t \in Threads :
        \/ Core(t)
        \/ \E h \in Handles(t) : FmtCall(t, h)

\* callers that intern, look up and deserialize payloads from outside
NextIn ==
    \E t \in Threads :
        \/ Core(t)
        \/ \E w \in Incoming : DeserInCall(t, w)

Spec == Init /\ [][Next]_vars

SpecSer == InitSer /\ [][Next]_vars

\* the steps of thread t that wait for nothing
Runs(t) == NewLookup(t) \/ NewIdx(t) \/ NewPush(t) \/ NameIndex(t)

\* the steps of thread t that wait for the lock
Grants(t) == NewReadLock(t) \/ NameReadLock(t) \/ NewWriteLock(t)

\* a running thread takes its next step, and the lock is granted fairly: a
\* request that can be granted again and again is granted
Fairness == \A t \in Threads : WF_vars(Runs(t)) /\ SF_vars(Grants(t))

\* callers that intern names and look up the handles they were issued
NextCore ==
    \E t \in Threads :
        \/ \E s \in Names : NewCall(t, s)
        \/ \E h \in issued[procOf[t]] : NameCall(t, h)
        \/ Grants(t)
        \/ Runs(t)

SpecFair == Init /\ [][NextCore]_vars /\ Fairness

SpecFmt == Init /\ [][NextFmt]_vars

SpecIn == Init /\ [][NextIn]_vars

\* ================================================================ claims
Ok(s) == [kind |-> "ok", val |-> s]
Count(sq, x) == Cardinality({i \in 1..Len(sq) : sq[i] = x})
\* the call that returned last was a Symbol::new that missed under the read lock
LastMissed == last.op = "new" /\ last.path \in {"write_hit", "appended"}

\* C1: among the handles Symbol::new has returned in a process, two are
\* equal exactly when they were made from the same text: no name has two
\* identifiers and no two names share one.
C1_SameTextSameSymbol ==
    \A p \in Procs : \A h1, h2 \in issued[p] :
        (h1.idx = h2.idx) <=> (h1.text = h2.text)

\* C1 witness: a name was interned again (found under the read lock) after
\* a second name had been interned, and the handles differ only by name.
C1_Witness ==
    /\ last.op = "new" /\ last.path = "read_hit"
    /\ \E h \in issued["A"] : h.text # last.h.text /\ h.idx # last.h.idx

\* C2: when a Symbol::new that missed under the read lock returns, every
\* call for that name, the racing ones included, has returned its identifier,
\* and the name stands in the names table exactly once.
C2_ConcurrentFirstIntern ==
    LastMissed =>
        /\ \A h \in issued[last.proc] :
               h.text = last.h.text => h.idx = last.h.idx
        /\ Count(reg[last.proc].names, last.h.text) = 1
        /\ \A t \in Threads :
               (procOf[t] = last.proc /\ sarg[t] = last.h.text
                   /\ pc[t] \in {"new_wrlock", "new_idx"})
               => Register_try_idx(reg[last.proc], sarg[t])
                      = [some |-> TRUE, idx |-> last.h.idx]

\* C2 witness: a call that missed under the read lock found the name under
\* the write lock: another thread's call for the same name, which had missed
\* too, appended it in between.
C2_Witness ==
    /\ LastMissed /\ last.path = "write_hit"
    /\ Count(reg[last.proc].names, last.h.text) = 1
    /\ Cardinality({h \in issued[last.proc] : h.text = last.h.text}) = 1

\* C3: Symbol::name on a handle that Symbol::new returned gives the text the
\* handle was made from, whatever was interned in between.
C3_RoundTrip ==
    (last.op = "name" /\ last.h.src = "new") => last.out = Ok(last.h.text)

\* C3 witness: the name of a handle was read back after a later name had
\* been appended behind it.
C3_Witness ==
    /\ last.op = "name" /\ last.h.src = "new"
    /\ last.out = Ok(last.h.text)
    /\ last.h.idx + 1 < Len(reg[last.proc].names)

\* C4: across every step, a handle that has been returned stays returned,
\* its text keeps mapping to its identifier, its identifier keeps naming its
\* text, and whatever is returned by the step for that text is that handle.
C4_IdentifierStable ==
    [][\A p \in Procs : \A h \in issued[p] :
          /\ h \in issued'[p]
          /\ Register_try_idx(reg'[p], h.text) = [some |-> TRUE, idx |-> h.idx]
          /\ Register_name(reg'[p], h.idx) = Ok(h.text)
          /\ \A h2 \in issued'[p] :
                 (h2.text = h.text) <=> (h2.idx = h.idx)]_vars

\* C4 witness: a name interned earlier was interned again after two more
\* names had been appended, and came back with its first identifier.
C4_Witness ==
    /\ last.op = "new" /\ last.path = "read_hit" /\ last.h.idx = 0
    /\ Len(reg[last.proc].names) >= 3
    /\ last.h \in issued[last.proc]

\* C5: of two names, the one interned first (appended first) has the
\* smaller handle, whatever the alphabetical order of the two.
C5_CreationOrder ==
    \A p \in Procs : \A i, j \in 1..Len(firstSeq[p]) :
        i < j => \A ha, hb \in issued[p] :
                     (ha.text = firstSeq[p][i] /\ hb.text = firstSeq[p][j])
                     => ha.idx < hb.idx

\* C5 witness: "y" was interned before "x", and its handle is the smaller.
C5_Witness ==
    /\ firstSeq["A"] = <<"y", "x">>
    /\ \E ha, hb \in issued["A"] :
           ha.text = "y" /\ hb.text = "x" /\ ha.idx < hb.idx

\* names and indices are inverse to each other
Bijection(r) ==
    /\ \A i \in 1..Len(r.names) :
           r.names[i] \in DOMAIN r.indices /\ r.indices[r.names[i]] = i - 1
    /\ Cardinality(DOMAIN r.indices) = Len(r.names)
    /\ \A n \in DOMAIN r.indices :
           r.indices[n] \in 0..(Len(r.names) - 1)
           /\ r.names[r.indices[n] + 1] = n
\* thread t holds a guard through which it looks at the register
Observes(t) == pc[t] \in {"new_try", "name_idx", "new_idx"}

\* C6: whenever a thread holds the read guard, or has just been granted the
\* write guard, indices[names[i]] = i for every i below len(names), indices
\* has len(names) keys, and the two are inverse bijections.
C6_RegistryBijection ==
    \A t \in Threads : Observes(t) => Bijection(reg[procOf[t]])

\* C6 witness: a thread holds the read guard on a register of two names
\* while another thread waits to append a third.
C6_Witness ==
    \E t, u \in Threads :
        /\ pc[t] \in {"new_try", "name_idx"} /\ pc[u] = "new_wrlock"
        /\ Len(reg["A"].names) = 2
        /\ Bijection(reg["A"])

\* C7: every identifier Symbol::new has returned is below len(names) in every
\* state, and Symbol::name (also inside serialize_sym) on such a handle does
\* not go out of bounds, whatever the other threads are doing.
C7_IssuedInBounds ==
    /\ \A p \in Procs : \A h \in issued[p] : h.idx < Len(reg[p].names)
    /\ \A t \in Threads :
           (pc[t] = "name_idx" /\ harg[t].src = "new")
           => Register_name(reg[procOf[t]], harg[t].idx).kind = "ok"
    /\ (last.op \in {"name", "ser"} /\ last.h.src = "new")
           => last.out.kind # "panic"

\* C7 witness: Symbol::name returned for an issued handle while another
\* thread was in the middle of interning a new name.
C7_Witness ==
    /\ last.op = "name" /\ last.h.src = "new" /\ last.out.kind = "ok"
    /\ \E t \in Threads : pc[t] \in {"new_wrlock", "new_idx", "new_push"}

\* C8: the wire value of a serialized handle is the plain string of the
\* handle's text, and the handle deserialize_sym makes from it, in the same
\* or in another process, names that text in the register of its process.
C8_SerdeRoundTrip ==
    /\ wire # NoWire => wire.value = [kind |-> "str", val |-> wire.text]
    /\ last.op = "deser"
           => Register_name(reg[last.proc], last.h.idx) = Ok(last.h.text)

\* C8 witness: process B deserialized a name whose identifier in B differs
\* from the one the serialized handle had in process A.
C8_Witness ==
    /\ last.op = "deser" /\ last.proc = "B"
    /\ last.h.text \in DOMAIN reg["A"].indices
    /\ reg["A"].indices[last.h.text] # last.h.idx
    /\ Register_name(reg["B"], last.h.idx) = Ok(last.h.text)

\* thread t waits for a lock that cannot be granted now
Blocked(t) ==
    \/ pc[t] \in {"new_rdlock", "name_rdlock"} /\ ~CanRead(lock[procOf[t]])
    \/ pc[t] = "new_wrlock" /\ ~CanWrite(lock[procOf[t]])
Holds(t) ==
    t \in lock[procOf[t]].readers \/ lock[procOf[t]].writer = t

\* C9: a thread that requests the write lock in Symbol::new holds no read
\* guard; and a blocked thread is blocked by another thread that holds the
\* lock and is not itself blocked, so the threads are never all blocked.
C9_NoDeadlock ==
    /\ \A t \in Threads : pc[t] = "new_wrlock" => ~Holds(t)
    /\ \A t \in Threads :
           Blocked(t) => \E u \in Threads \ {t} :
                             /\ procOf[u] = procOf[t]
                             /\ Holds(u) /\ ~Blocked(u)
    /\ \E t \in Threads : ~Blocked(t)

\* C9 witness: a thread has missed and waits for the write lock while
\* another thread holds a read guard.
C9_Witness ==
    \E t, u \in Threads :
        /\ pc[t] = "new_wrlock" /\ Blocked(t)
        /\ u \in lock[procOf[t]].readers

\* C10: the step of Symbol::name that indexes names with an identifier at or
\* above len(names) unwinds the thread with a panic; it yields no name and
\* no wire value.
C10_UnassignedPanics ==
    [][\A t \in Threads :
          (pc[t] = "name_idx" /\ pc'[t] # "name_idx"
              /\ harg[t].idx >= Len(reg[procOf[t]].names))
          => /\ pc'[t] = "panicked"
             /\ last'.out = [kind |-> "panic", val |-> ""]
             /\ last'.h = harg[t]
             /\ wire' = wire]_vars

\* C10 witness: a lookup with an identifier at or above len(names) has just
\* unwound its thread, on a register that is not empty.
C10_Witness ==
    /\ last.op = "name" /\ last.out.kind = "panic"
    /\ Len(reg[last.proc].names) > 0
    /\ last.h.idx >= Len(reg[last.proc].names)
    /\ \E t \in Threads : pc[t] = "panicked"

\* C11: the step that finds a name absent under the write guard gives it
\* the identifier len(names), the length before the append; the append then
\* makes it the (idx+1)-th name and the (idx+1)-th name ever interned, and
\* that identifier is what Symbol::new returns.
C11_SequentialAssignment ==
    [][\A t \in Threads :
          LET p == procOf[t] IN
          /\ (pc[t] = "new_idx" /\ pc'[t] = "new_push")
                 => ret'[t] = Len(reg[p].names)
          /\ (pc[t] = "new_push" /\ pc'[t] # "new_push")
                 => /\ last'.h = [idx |-> Len(reg[p].names), text |-> sarg[t],
                                  src |-> "new"]
                    /\ Len(reg'[p].names) = Len(reg[p].names) + 1
                    /\ reg'[p].names[last'.h.idx + 1] = sarg[t]
                    /\ Len(firstSeq'[p]) = last'.h.idx + 1
                    /\ firstSeq'[p][last'.h.idx + 1] = sarg[t]]_vars

\* C11 witness: "x", "y", "z" were interned in that order, in four calls,
\* and carry the identifiers 0, 1, 2.
C11_Witness ==
    /\ firstSeq["A"] = <<"x", "y", "z">>
    /\ issued["A"] = {[idx |-> 0, text |-> "x", src |-> "new"],
                      [idx |-> 1, text |-> "y", src |-> "new"],
                      [idx |-> 2, text |-> "z", src |-> "new"]}
    /\ last.path = "appended" /\ last.h.text = "z"
    /\ calls = 4

IsPrefix(a, b) == Len(a) <= Len(b) /\ \A i \in 1..Len(a) : a[i] = b[i]

\* C12: across every step the names of a register are a prefix of the names
\* after it, and at most one longer: nothing is removed, changed or moved.
C12_AppendOnly ==
    [][\A p \in Procs :
          /\ IsPrefix(reg[p].names, reg'[p].names)
          /\ Len(reg'[p].names) <= Len(reg[p].names) + 1]_vars

\* C12 witness: three appends have happened, one after the other.
C12_Witness ==
    /\ Len(reg["A"].names) = 3
    /\ reg["A"].names = firstSeq["A"]

\* thread t takes a step
Steps(t) == pc'[t] # pc[t] \/ op'[t] # op[t]
Registered(t) == sarg[t] \in DOMAIN reg[procOf[t]].indices

\* C13: the steps of a lookup leave names and indices as they are: the
\* start of any call, a read-lock grant, try_idx under the read guard
\* (found or not), the indexing of Symbol::name and Display::fmt (returning
\* or panicking), and SymbolRegister::idx on a name that is there.
C13_LookupsLeaveRegister ==
    [][\A t \in Threads :
          /\ (Steps(t) /\ pc[t] \in {"idle", "new_rdlock", "new_try",
                                     "name_rdlock", "name_idx"})
                 => reg' = reg
          /\ (Steps(t) /\ pc[t] = "new_idx" /\ Registered(t))
                 => reg' = reg]_vars

\* C13 witness: Display::fmt has written the name of a symbol of a register
\* with two names, which are still what was interned.
C13_Witness ==
    /\ last.op = "fmt" /\ last.out.kind = "fmt"
    /\ Len(reg["A"].names) = 2
    /\ reg["A"].names = firstSeq["A"]

\* C14: a call of Symbol::new goes from its start to the read lock and to
\* the lookup under it; only a lookup that misses goes on to request the
\* write lock; a lookup that finds the name returns its identifier and
\* leaves the writer as it is; the write lock goes only to a thread that
\* requested it; and under the write guard a name that is there is
\* returned and nothing appended, while an absent one is inserted.
C14_TwoPhase ==
    [][\A t \in Threads :
          LET p == procOf[t] IN
          /\ (pc'[t] = "new_rdlock" /\ pc[t] # "new_rdlock") => pc[t] = "idle"
          /\ (pc'[t] = "new_try" /\ pc[t] # "new_try")
                 => pc[t] = "new_rdlock" /\ t \in lock'[p].readers
          /\ (pc'[t] = "new_wrlock" /\ pc[t] # "new_wrlock")
                 => pc[t] = "new_try" /\ ~Registered(t)
          /\ (pc[t] = "new_try" /\ Steps(t) /\ Registered(t))
                 => /\ pc'[t] = "idle"
                    /\ last'.path = "read_hit"
                    /\ last'.h.idx = reg[p].indices[sarg[t]]
                    /\ lock'[p].writer = lock[p].writer
          /\ (lock'[p].writer = t /\ lock[p].writer # t)
                 => pc[t] = "new_wrlock" /\ pc'[t] = "new_idx"
          /\ (pc[t] = "new_idx" /\ Steps(t))
                 => IF Registered(t)
                    THEN /\ pc'[t] = "idle" /\ reg' = reg
                         /\ last'.path = "write_hit"
                         /\ last'.h.idx = reg[p].indices[sarg[t]]
                    ELSE /\ pc'[t] = "new_push"
                         /\ sarg[t] \in DOMAIN reg'[p].indices
                         /\ reg'[p].names = reg[p].names]_vars

\* C14 witness: a call took the write lock after a miss, found that the
\* name had been appended meanwhile and returned it without appending.
C14_Witness ==
    /\ last.op = "new" /\ last.path = "write_hit"
    /\ Count(reg[last.proc].names, last.h.text) = 1

InCall(t) == pc[t] \notin {"idle", "panicked"}

\* C15: under fair lock granting every Symbol::new call that has started,
\* and every Symbol::name call on an issued handle, returns.
C15_Termination == \A t \in Threads : InCall(t) ~> pc[t] = "idle"

\* C15 witness: all the calls the threads may make have been made and have
\* ended, the last one a call that had to wait for the write lock.
C15_Witness ==
    /\ calls = MaxCalls
    /\ \A t \in Threads : ~InCall(t)
    /\ spawned = Threads
    /\ last.path = "write_hit"

\* C16: the default handle carries identifier 0; a name lookup on it while
\* the register is empty fails out of bounds; and from the first push on it
\* is equal to the handle issued for the first name interned, and a name
\* lookup on it returns that name.
C16_DefaultHandle ==
    [][/\ DefaultSymbol.idx = 0
       /\ \A p \in Procs :
              Len(reg'[p].names) > 0
                  => /\ Register_name(reg'[p], DefaultSymbol.idx)
                            = Ok(firstSeq'[p][1])
                     /\ \E h \in issued'[p] :
                            h.text = firstSeq'[p][1] /\ h.idx = DefaultSymbol.idx
                     /\ \A h \in issued'[p] :
                            h.text = firstSeq'[p][1] => h.idx = DefaultSymbol.idx
       /\ \A t \in Threads :
              (pc[t] = "name_idx" /\ Steps(t) /\ harg[t] = DefaultSymbol)
                  => IF Len(reg[procOf[t]].names) = 0
                     THEN pc'[t] = "panicked" /\ last'.out.kind = "panic"
                     ELSE /\ pc'[t] = "idle"
                          /\ last'.h = DefaultSymbol
                          /\ last'.out = Ok(firstSeq[procOf[t]][1])]_vars

\* C16 witness: with two names in the register, Symbol::name on the default
\* handle has returned the first name interned.
C16_Witness ==
    /\ last.op = "name" /\ last.h = DefaultSymbol
    /\ Len(reg["A"].names) = 2
    /\ last.out = Ok(firstSeq["A"][1])

\* C17: deserialize_sym on a string payload always comes to an identifier:
\* it never unwinds, a name that is registered gets the identifier it has
\* and the register stays as it is, a name that is not gets exactly one new
\* entry whose identifier is returned, and the handle returned is always in
\* bounds.
C17_DeserializeMaps ==
    [][\A t \in Threads :
          LET p == procOf[t] IN
          op[t] = "deser_in" /\ Steps(t)
              => /\ pc'[t] # "panicked"
                 /\ pc'[t] = "idle"
                        => /\ last'.op = "deser_in"
                           /\ last'.h.text = gtext[t]
                           /\ last'.h.idx < Len(reg'[p].names)
                           /\ reg'[p].names[last'.h.idx + 1] = sarg[t]
                           /\ reg'[p].indices[sarg[t]] = last'.h.idx
                           /\ last'.h \in issued'[p]
                 /\ (pc'[t] = "idle" /\ pc[t] # "new_push")
                        => /\ reg' = reg
                           /\ last'.h.idx = reg[p].indices[sarg[t]]
                 /\ pc[t] = "new_idx" /\ ~Registered(t)
                        => /\ pc'[t] = "new_push"
                           /\ DOMAIN reg'[p].indices
                                  = DOMAIN reg[p].indices \cup {sarg[t]}
                           /\ reg'[p].indices[sarg[t]] = Len(reg[p].names)
                 /\ pc[t] = "new_push"
                        => /\ pc'[t] = "idle"
                           /\ reg'[p].names = Append(reg[p].names, sarg[t])
                           /\ reg'[p].indices = reg[p].indices
                           /\ Count(reg'[p].names, sarg[t]) = 1
                           /\ last'.h.idx = Len(reg[p].names)
                 /\ pc[t] \notin {"new_idx", "new_push"} => reg' = reg]_vars

\* C17 witness: a payload naming an unregistered symbol was deserialized
\* into a register that had names already, and got a new entry.
C17_Witness ==
    /\ last.op = "deser_in" /\ last.path = "appended"
    /\ last.h.idx >= 1
    /\ reg[last.proc].names[last.h.idx + 1] = last.h.text

\* a thread inside a first-time intern: its lookup has missed and its name
\* is not in names yet
Interning(t) ==
    /\ pc[t] \in {"new_wrlock", "new_idx", "new_push"}
    /\ sarg[t] \notin Range(reg[procOf[t]].names)

\* C18: threads that intern distinct new names at the same time append one
\* at a time: each append takes position names.len() of that moment, so the
\* names appended onto a register of length L get L, L+1, ... in the order
\* of the appends, with no gap and no identifier given twice.
C18_ConcurrentFirstInterns ==
    [][\A t \in Threads :
          LET p == procOf[t]
              L == Len(reg[p].names)
          IN  /\ (pc[t] = "new_push" /\ Steps(t))
                     => /\ lock[p].writer = t
                        /\ ret[t] = L
                        /\ Len(reg'[p].names) = L + 1
                        /\ reg'[p].names[L + 1] = sarg[t]
                        /\ last'.h.idx = L
                        /\ last'.h.text = sarg[t]
                        /\ \A h \in issued[p] : h.idx < L
                        /\ \A u \in Threads \ {t} :
                               (procOf[u] = p /\ Interning(u)
                                   /\ sarg[u] # sarg[t])
                                   => /\ pc[u] = "new_wrlock"
                                      /\ pc'[u] = "new_wrlock"
                                      /\ sarg[u] \notin Range(reg'[p].names)
              /\ {h.idx : h \in issued'[p]} \subseteq 0..(Len(reg'[p].names) - 1)
              /\ \A g, h \in issued'[p] : g.idx = h.idx => g.text = h.text
              /\ \A i \in 1..Len(reg'[p].names) :
                     i <= Len(reg[p].names) => reg'[p].names[i] = reg[p].names[i]
     ]_vars

\* C18 witness: on a register that has a name, two threads have missed with
\* distinct new names; one holds the write lock between its insert and its
\* push, the other waits for the write lock.
C18_Witness ==
    \E t, u \in Threads :
        /\ t # u /\ procOf[t] = procOf[u]
        /\ Len(reg[procOf[t]].names) >= 1
        /\ pc[t] = "new_push" /\ Interning(t)
        /\ pc[u] = "new_wrlock" /\ Interning(u)
        /\ sarg[t] # sarg[u]

\* C19: a name lookup (Symbol::name or Display::fmt) on an identifier that
\* is not assigned fails holding the read lock only, changes neither names
\* nor indices nor what was issued, and drops its guard without poisoning
\* the lock; no other thread is touched, the lock is never poisoned, and no
\* call ever unwinds but a lookup on an unassigned identifier.
C19_FailedLookupHarmless ==
    [][\A t \in Threads :
          LET p == procOf[t] IN
          /\ (pc[t] = "name_idx" /\ Steps(t)
                  /\ harg[t].idx >= Len(reg[p].names))
                 => /\ pc'[t] = "panicked"
                    /\ last'.out.kind = "panic"
                    /\ t \in lock[p].readers
                    /\ lock[p].writer = NoThread
                    /\ reg' = reg
                    /\ issued' = issued
                    /\ lock'[p] = [lock[p] EXCEPT !.readers = @ \ {t}]
                    /\ \A u \in Threads \ {t} :
                           /\ pc'[u] = pc[u] /\ op'[u] = op[u]
                           /\ sarg'[u] = sarg[u] /\ harg'[u] = harg[u]
                           /\ ret'[u] = ret[u]
          /\ ~lock'[p].poisoned
          /\ (pc'[t] = "panicked" /\ pc[t] # "panicked")
                 => /\ pc[t] = "name_idx"
                    /\ op[t] \in {"name", "fmt"}
                    /\ harg[t].idx >= Len(reg[p].names)
                    /\ harg[t].src # "new"]_vars

\* C19 witness: after a lookup has failed and unwound its thread, another
\* thread has taken the write lock and appended a name.
C19_Witness ==
    /\ \E t \in Threads : pc[t] = "panicked"
    /\ last.op = "new" /\ last.path = "appended"
    /\ last.h.idx >= 1
    /\ ~lock[last.proc].poisoned
====
